---- MODULE Spec2Model ----
(***************************************************************************)
(* Model of src/src/ncaa_wsoccer_collector.py: the sequential pipeline     *)
(* schedule walker -> scoreboard expander -> deduplication -> boxscore     *)
(* flattener -> season aggregator.                                         *)
(*                                                                         *)
(* Encoding.                                                               *)
(*  - A Python string that the code splits, strips, slices or parses is a  *)
(*    sequence of one-character strings; a string that is only compared    *)
(*    or tested for emptiness is a TLA+ string.                            *)
(*  - A dict key that may be absent is an option: <<>> when the key is     *)
(*    absent, <<v>> when it is present with value v.  d.get(k, default) is *)
(*    OptGet(d.k, default).                                                *)
(*  - get() returning None is the empty option.                            *)
(*  - A payload field is either absent or present with a value of the      *)
(*    type the code expects; a JSON null is not represented.               *)
(***************************************************************************)
EXTENDS Integers, Sequences, FiniteSets, TLC

VARIABLES
    pc,             \* position of main: schedule, scoreboards, boxscores, finish, done, no_data, crashed
    season_i,       \* index into SEASONS of the season being collected
    month_i,        \* index into SEASON_MONTHS of the next month to fetch
    dates,          \* get_game_dates: dates
    date_i,         \* index into dates of the next scoreboard to fetch
    game_metas,     \* main: game_metas
    unique_games,   \* main: unique_games
    seen,           \* main: seen
    game_i,         \* index into unique_games of the next boxscore to fetch
    season_rows,    \* main: season_rows
    failed,         \* main: failed
    all_game_rows,  \* main: all_game_rows
    raw_df,         \* main: raw_df (the rows of the raw table)
    player_df,      \* main: player_df (the season table)
    fetch_log,      \* history: every call of get(), in order, with whether it gave a payload
    calls,          \* history: every call of parse_boxscore, in order, with its arguments
    inputs          \* history: the payloads the upstream API returned, in order

vars == <<pc, season_i, month_i, dates, date_i, game_metas, unique_games, seen,
          game_i, season_rows, failed, all_game_rows, raw_df, player_df,
          fetch_log, calls, inputs>>

----------------------------------------------------------------------------
(* Bounds of the model *)

MaxDateLen == 5
MaxUrlLen == 2
MaxEntries == 2
MaxBoardGames == 2
MaxBlocks == 2
MaxRows == 3

----------------------------------------------------------------------------
(* Generic helpers *)

OptGet(o, default) == IF o = <<>> THEN default ELSE o[1]

Opt(S) == {<<>>} \cup {<<v>> : v \in S}

SeqsUpTo(S, n) == UNION {[1..k -> S] : k \in 0..n}

Range(s) == {s[i] : i \in 1..Len(s)}

RECURSIVE Flatten(_)
Flatten(ss) == IF ss = <<>> THEN <<>> ELSE Head(ss) \o Flatten(Tail(ss))

Digits == {"0", "1", "2", "3", "4", "5", "6", "7", "8", "9"}

\* str.isdigit(): non-empty and every character a digit
IsDigit(s) == s # <<>> /\ \A i \in 1..Len(s) : s[i] \in Digits

\* str.split(sep): the segments between the occurrences of sep (always at least one)
RECURSIVE SplitFrom(_, _, _)
SplitFrom(s, sep, cur) ==
    IF s = <<>> THEN <<cur>>
    ELSE IF Head(s) = sep THEN <<cur>> \o SplitFrom(Tail(s), sep, <<>>)
    ELSE SplitFrom(Tail(s), sep, Append(cur, Head(s)))

Split(s, sep) == SplitFrom(s, sep, <<>>)

\* str.strip(ch): leading and trailing occurrences of ch removed
RECURSIVE LStrip(_, _)
LStrip(s, ch) == IF s # <<>> /\ Head(s) = ch THEN LStrip(Tail(s), ch) ELSE s

RECURSIVE RStrip(_, _)
RStrip(s, ch) ==
    IF s # <<>> /\ s[Len(s)] = ch THEN RStrip(SubSeq(s, 1, Len(s) - 1), ch) ELSE s

Strip(s, ch) == RStrip(LStrip(s, ch), ch)

\* s[:n]
Prefix(s, n) == SubSeq(s, 1, IF Len(s) < n THEN Len(s) ELSE n)

----------------------------------------------------------------------------
(* Configuration *)

SEASONS == << <<"2", "0", "2", "4">> >>

SEASON_MONTHS == << <<"0", "8">>, <<"0", "9">>, <<"1", "0">>, <<"1", "1">> >>

----------------------------------------------------------------------------
(* HTTP helper *)

\* A response of the upstream API: session.get raised (timeout, connection
\* error), or it answered with a status code and a JSON body.
Response(raised, status, json) == [raised |-> raised, status |-> status, json |-> json]

\* get(path): the payload when the request answered 200, None otherwise
get(resp) == IF ~resp.raised /\ resp.status = 200 THEN <<resp.json>> ELSE <<>>

\* One record of fetch_log
Fetch(kind, key, resp) == [kind |-> kind, key |-> key, ok |-> get(resp) # <<>>]

----------------------------------------------------------------------------
(* Step 1: get_game_dates *)

\* A faulty rendering: year and month only
ReformatDropDay(parts) == parts[3] \o <<"/">> \o parts[1]

\* f"{parts[2]}/{parts[0]}/{parts[1]}"
Reformat(parts) == parts[3] \o <<"/">> \o parts[1] \o <<"/">> \o parts[2]

\* entry.get("games", 0) > 0
HasGames(entry) == OptGet(entry.games, 0) > 0

\* The body of `for entry in data.get("gameDates", [])` for one entry: the
\* dates it appends
EntryDates(entry) ==
    IF HasGames(entry)
    THEN LET d == OptGet(entry.contest_date, <<>>)
         IN  IF d # <<>>
             THEN LET parts == Split(d, "-")
                  IN  IF Len(parts) = 3 THEN <<Reformat(parts)>> ELSE <<>>
             ELSE <<>>
    ELSE <<>>

\* `not data` for a schedule payload: None, or a dict with no key
NoSchedule(data) == data = <<>> \/ data[1].gameDates = <<>>

\* One iteration of `for month in SEASON_MONTHS`: the dates it appends
MonthDates(data) ==
    IF NoSchedule(data) THEN <<>>
    ELSE LET entries == OptGet(data[1].gameDates, <<>>)
         IN  Flatten([i \in 1..Len(entries) |-> EntryDates(entries[i])])

----------------------------------------------------------------------------
(* Step 2: get_game_ids_for_date *)

\* The {} that game.get("home", {}) and .get("names", {}) default to
EmptySide == [names |-> <<>>, score |-> <<>>, winner |-> <<>>, description |-> <<>>]

EmptyNames == [full |-> <<>>, seo |-> <<>>]

\* game.get(side, {}).get("names", {}).get(key, "")
TeamName(game, side, key) ==
    OptGet(OptGet(OptGet(game[side], EmptySide).names, EmptyNames)[key], "")

\* game.get(side, {}).get("winner", False)
TeamWinner(game, side) == OptGet(OptGet(game[side], EmptySide).winner, FALSE)

\* game.get(side, {}).get(key, "") for the score and the description
TeamField(game, side, key) == OptGet(OptGet(game[side], EmptySide)[key], "")

\* A faulty extraction: the url is split without strip("/")
LastSegmentUnstripped(url) == LET segs == Split(url, "/") IN segs[Len(segs)]

\* url.strip("/").split("/")[-1]
LastSegment(url) == LET segs == Split(Strip(url, "/"), "/") IN segs[Len(segs)]

\* The meta dict of one game
Meta(full_id, game) ==
    [game_id     |-> full_id,
     game_date   |-> OptGet(game.startDate, <<>>),
     home_team   |-> TeamName(game, "home", "full"),
     home_seo    |-> TeamName(game, "home", "seo"),
     home_score  |-> TeamField(game, "home", "score"),
     home_winner |-> TeamWinner(game, "home"),
     home_record |-> TeamField(game, "home", "description"),
     away_team   |-> TeamName(game, "away", "full"),
     away_seo    |-> TeamName(game, "away", "seo"),
     away_score  |-> TeamField(game, "away", "score"),
     away_winner |-> TeamWinner(game, "away"),
     away_record |-> TeamField(game, "away", "description"),
     game_state  |-> OptGet(game.gameState, "")]

EmptyGame ==
    [url |-> <<>>, startDate |-> <<>>, home |-> <<>>, away |-> <<>>, gameState |-> <<>>]

\* The body of `for item in data.get("games", [])` for one item: the
\* (full_id, meta) pairs it appends
ItemResults(item) ==
    LET game == OptGet(item.game, EmptyGame)
        url  == OptGet(game.url, <<>>)
    IN  IF url = <<>> THEN <<>>
        ELSE LET full_id == LastSegment(url)
             IN  IF ~IsDigit(full_id) THEN <<>>
                 ELSE << <<full_id, Meta(full_id, game)>> >>

\* `not data` for a scoreboard payload
NoScoreboard(data) == data = <<>> \/ data[1].games = <<>>

\* get_game_ids_for_date, given the response to its request
get_game_ids_for_date(resp) ==
    LET data == get(resp)
    IN  IF NoScoreboard(data) THEN <<>>
        ELSE LET items == OptGet(data[1].games, <<>>)
             IN  Flatten([i \in 1..Len(items) |-> ItemResults(items[i])])

----------------------------------------------------------------------------
(* Step 3: parse_boxscore *)

\* A JSON team identifier: an integer n, or a string s
IntId(n) == [int |-> TRUE, n |-> n, s |-> <<>>]

StrId(s) == [int |-> FALSE, n |-> 0, s |-> s]

DigitValue(c) ==
    CASE c = "0" -> 0 [] c = "1" -> 1 [] c = "2" -> 2 [] c = "3" -> 3 [] c = "4" -> 4
      [] c = "5" -> 5 [] c = "6" -> 6 [] c = "7" -> 7 [] c = "8" -> 8 [] c = "9" -> 9

DigitChar(d) == <<"0", "1", "2", "3", "4", "5", "6", "7", "8", "9">>[d + 1]

\* str(n) of a non-negative integer
RECURSIVE Decimal(_)
Decimal(n) == IF n < 10 THEN <<DigitChar(n)>> ELSE Append(Decimal(n \div 10), DigitChar(n % 10))

\* str(v) of a team identifier
PyStr(v) == IF v.int THEN Decimal(v.n) ELSE v.s

\* int(s) raises ValueError unless s is a decimal numeral (the identifiers of
\* the model hold digits and letters only)
IntRaises(s) == ~IsDigit(s)

RECURSIVE IntValue(_)
IntValue(s) == IF s = <<>> THEN 0 ELSE 10 * IntValue(SubSeq(s, 1, Len(s) - 1)) + DigitValue(s[Len(s)])

\* The {} that teams_info.get(..., {}) defaults to
EmptyTeamInfo == [teamId |-> <<>>, nameFull |-> <<>>, nameShort |-> <<>>, seoname |-> <<>>]

\* {t["teamId"]: t for t in teams}: a later entry replaces an earlier one of the same key
TeamsInfo(teams) ==
    [k \in {teams[i].teamId[1] : i \in 1..Len(teams)} |->
        LET last == CHOOSE i \in 1..Len(teams) :
                        /\ teams[i].teamId[1] = k
                        /\ \A j \in (i + 1)..Len(teams) : teams[j].teamId[1] # k
        IN  teams[last]]

\* d.get(key, default) of the teams_info dict
DictGet(d, key, default) == IF key \in DOMAIN d THEN d[key] ELSE default

\* teams_info.get(team_id, teams_info.get(int(team_id), {}))
TeamInfOf(teams_info, team_id) ==
    DictGet(teams_info, StrId(team_id),
            DictGet(teams_info, IntId(IntValue(team_id)), EmptyTeamInfo))

\* team_inf.get("nameFull") or team_inf.get("nameShort", "")
TeamNameOf(team_inf) ==
    IF OptGet(team_inf.nameFull, "") # "" THEN team_inf.nameFull[1]
    ELSE OptGet(team_inf.nameShort, "")

\* A faulty test: equality alone, without the truthiness of team_seo
IsHomeByEquality(team_seo, meta) == team_seo = meta.home_seo

\* team_seo and team_seo == meta.get("home_seo")
IsHome(team_seo, meta) == team_seo # "" /\ team_seo = meta.home_seo

\* The stat_goals entry of a row: "goals" is copied first and "Goals" after it,
\* into the same lower-cased column
StatGoals(player) == IF player.Goals # <<>> THEN player.Goals ELSE player.goals

\* The row of one player entry
Row(game_id, meta, team_name, team_seo, player) ==
    [game_id      |-> game_id,
     game_date    |-> meta.game_date,
     season       |-> IF meta.game_date # <<>> THEN Prefix(meta.game_date, 4) ELSE <<>>,
     player_first |-> OptGet(player.firstName, ""),
     player_last  |-> OptGet(player.lastName, ""),
     player_num   |-> OptGet(player.number, ""),
     position     |-> OptGet(player.position, ""),
     stat_type    |-> OptGet(player.typename, ""),
     category     |-> OptGet(player.category, ""),
     team_name    |-> team_name,
     team_seo     |-> team_seo,
     is_home      |-> IsHome(team_seo, meta),
     team_won     |-> IF IsHome(team_seo, meta) THEN meta.home_winner ELSE meta.away_winner,
     team_record_at_game |->
                      IF IsHome(team_seo, meta) THEN meta.home_record ELSE meta.away_record,
     stat_goals   |-> StatGoals(player),
     stat_assists |-> player.assists,
     stat_minutesplayed |-> player.minutesPlayed,
     stat_min     |-> player.min,
     stat_fouls   |-> player.fouls]

\* The player entry carries one of the stat fields
HasStat(player) ==
    \E f \in {"goals", "Goals", "assists", "minutesPlayed", "min", "fouls"} : player[f] # <<>>

\* A faulty loop: a player entry without any stat gives no row
TeamBoxRowsWithStats(game_id, meta, teams_info, team_box) ==
    LET team_id   == IF team_box.teamId = <<>> THEN <<>> ELSE PyStr(team_box.teamId[1])
        team_inf  == TeamInfOf(teams_info, team_id)
        players   == SelectSeq(OptGet(team_box.playerStats, <<>>), HasStat)
    IN  [i \in 1..Len(players) |->
            Row(game_id, meta, TeamNameOf(team_inf), OptGet(team_inf.seoname, ""), players[i])]

\* The body of `for team_box in data.get("teamBoxscore", [])` for one block: the rows it appends
TeamBoxRows(game_id, meta, teams_info, team_box) ==
    LET team_id   == IF team_box.teamId = <<>> THEN <<>> ELSE PyStr(team_box.teamId[1])
        team_inf  == TeamInfOf(teams_info, team_id)
        team_name == TeamNameOf(team_inf)
        team_seo  == OptGet(team_inf.seoname, "")
        players   == OptGet(team_box.playerStats, <<>>)
    IN  [i \in 1..Len(players) |-> Row(game_id, meta, team_name, team_seo, players[i])]

\* `not data` for a boxscore payload
NoBoxscore(data) == data = <<>> \/ (data[1].teams = <<>> /\ data[1].teamBoxscore = <<>>)

\* t["teamId"] raises KeyError for a teams entry without the key
TeamsRaise(teams) == \E i \in 1..Len(teams) : teams[i].teamId = <<>>

\* int(team_id) raises ValueError for a block whose identifier is no numeral
BlocksRaise(blocks) ==
    \E i \in 1..Len(blocks) :
        IntRaises(IF blocks[i].teamId = <<>> THEN <<>> ELSE PyStr(blocks[i].teamId[1]))

Returned(rows) == [raised |-> FALSE, rows |-> rows]

Raised == [raised |-> TRUE, rows |-> <<>>]

\* parse_boxscore, given the response to its request: the rows it returns, or
\* the exception it lets escape
parse_boxscore(game_id, meta, resp) ==
    LET data == get(resp)
    IN  IF NoBoxscore(data) THEN Returned(<<>>)
        ELSE LET teams  == OptGet(data[1].teams, <<>>)
                 blocks == OptGet(data[1].teamBoxscore, <<>>)
             IN  IF TeamsRaise(teams) \/ BlocksRaise(blocks) THEN Raised
                 ELSE Returned(Flatten([i \in 1..Len(blocks) |->
                          TeamBoxRows(game_id, meta, TeamsInfo(teams), blocks[i])]))

----------------------------------------------------------------------------
(* Step 4: aggregate_player_season *)

\* A cell of a stat column in the payload: a number n, or a value that
\* pd.to_numeric cannot parse
Num(n) == [num |-> TRUE, n |-> n]

NotNum == [num |-> FALSE, n |-> 0]

\* pd.to_numeric(..., errors="coerce") of one cell: absent and unparseable
\* cells become NaN (the empty option)
ToNumeric(cell) == IF cell # <<>> /\ cell[1].num THEN <<cell[1].n>> ELSE <<>>

\* The stat_ columns a row's dict holds besides stat_type, in insertion order
OptionalStatCols == <<"stat_goals", "stat_assists", "stat_minutesplayed", "stat_min", "stat_fouls">>

RowHas(row, c) == row[c] # <<>>

\* The columns of the frame that start with "stat_", in column order: the union
\* of the rows' keys, each at its first appearance.  stat_type is a key of every row.
RECURSIVE StatColsFrom(_, _)
StatColsFrom(rows, acc) ==
    IF rows = <<>> THEN acc
    ELSE LET new == SelectSeq(OptionalStatCols,
                        LAMBDA c : RowHas(Head(rows), c) /\ c \notin Range(acc))
         IN  StatColsFrom(Tail(rows), acc \o new)

StatCols(rows) == IF rows = <<>> THEN <<>> ELSE StatColsFrom(rows, <<"stat_type">>)

\* "minute" in c or c == "stat_min"
IsMinuteCol(c) == c \in {"stat_minutesplayed", "stat_min"}

\* next((c for c in cols if pred(c)), None)
First(hits) == IF hits = <<>> THEN <<>> ELSE <<hits[1]>>

\* The numeric value of a row's cell in column c (stat_type never parses)
Cell(row, c) == IF c = "stat_type" THEN <<>> ELSE ToNumeric(row[c])

group_cols(row) ==
    <<row.player_first, row.player_last, row.team_name, row.team_seo, row.season>>

RECURSIVE SumOver(_, _)
SumOver(S, f) ==
    IF S = {} THEN 0 ELSE LET x == CHOOSE x \in S : TRUE IN f[x] + SumOver(S \ {x}, f)

\* A ratio column: a missing value, or the fraction n / d
NA == [na |-> TRUE, n |-> 0, d |-> 1]

Fraction(n, d) == [na |-> FALSE, n |-> n, d |-> d]

\* n / d.replace(0, pd.NA)
Rate(n, d) == IF d = 0 THEN NA ELSE Fraction(n, d)

\* A faulty threshold: more than 60 minutes
StartThresholdAbove(v) == v > 60

\* game_rows[min_col] >= 60
IsStart(v) == v >= 60

\* A faulty guard: one of the two columns is enough
ProductionIfEither(has_goals, has_assists) == has_goals \/ has_assists

\* if g_col and a_col
HasProduction(has_goals, has_assists) == has_goals /\ has_assists

\* A faulty grouping: by the first name only
GroupOfFirstNameOnly(rows, key) == {i \in 1..Len(rows) : rows[i].player_first = key[1]}

\* The rows of one group of groupby(group_cols)
GroupOf(rows, key) == {i \in 1..Len(rows) : group_cols(rows[i]) = key}

\* The output row of one group
SeasonRow(rows, key) ==
    LET G         == GroupOf(rows, key)
        cols      == StatCols(rows)
        Sum(c)    == SumOver(G, [i \in G |-> OptGet(Cell(rows[i], c), 0)])
        SumOpt(c) == IF c \in Range(cols) THEN <<Sum(c)>> ELSE <<>>
        min_col   == First(SelectSeq(cols, IsMinuteCol))
        g_col     == First(SelectSeq(cols, LAMBDA c : c = "stat_goals"))
        a_col     == First(SelectSeq(cols, LAMBDA c : c = "stat_assists"))
        games_played == Cardinality(G)
        team_wins_in == Cardinality({i \in G : rows[i].team_won})
        est_starts   == Cardinality({i \in G :
                            /\ min_col # <<>>
                            /\ Cell(rows[i], min_col[1]) # <<>>
                            /\ IsStart(Cell(rows[i], min_col[1])[1])})
    IN  [player_first |-> key[1],
         player_last  |-> key[2],
         team_name    |-> key[3],
         team_seo     |-> key[4],
         season       |-> key[5],
         stat_type    |-> Sum("stat_type"),
         stat_goals   |-> SumOpt("stat_goals"),
         stat_assists |-> SumOpt("stat_assists"),
         stat_minutesplayed |-> SumOpt("stat_minutesplayed"),
         stat_min     |-> SumOpt("stat_min"),
         stat_fouls   |-> SumOpt("stat_fouls"),
         games_played |-> games_played,
         team_wins_in |-> team_wins_in,
         est_starts   |-> IF min_col # <<>> THEN <<est_starts>> ELSE <<>>,
         start_rate   |-> IF min_col # <<>> THEN <<Rate(est_starts, games_played)>> ELSE <<>>,
         win_rate     |-> Rate(team_wins_in, games_played),
         production_per_game |->
             IF HasProduction(g_col # <<>>, a_col # <<>>)
             THEN <<Rate(2 * Sum("stat_goals") + Sum("stat_assists"), 2 * games_played)>>
             ELSE <<>>]

\* aggregate_player_season: one output row per group (the frame's row order,
\* sorted by key, is not represented)
aggregate_player_season(rows) ==
    IF rows = <<>> THEN {}
    ELSE {SeasonRow(rows, key) : key \in {group_cols(rows[i]) : i \in 1..Len(rows)}}

----------------------------------------------------------------------------
(* main *)

\* The deduplication loop over game_metas: <<seen, unique_games>>
RECURSIVE DedupFrom(_, _, _)
DedupFrom(metas, seen_ids, unique) ==
    IF metas = <<>> THEN <<seen_ids, unique>>
    ELSE LET gid == Head(metas)[1]
         IN  IF gid \notin seen_ids
             THEN DedupFrom(Tail(metas), seen_ids \cup {gid}, Append(unique, Head(metas)))
             ELSE DedupFrom(Tail(metas), seen_ids, unique)

Dedup(metas) == DedupFrom(metas, {}, <<>>)

Init ==
    /\ pc = "schedule"
    /\ season_i = 1
    /\ month_i = 1
    /\ dates = <<>>
    /\ date_i = 1
    /\ game_metas = <<>>
    /\ unique_games = <<>>
    /\ seen = {}
    /\ game_i = 1
    /\ season_rows = <<>>
    /\ failed = 0
    /\ all_game_rows = <<>>
    /\ raw_df = <<>>
    /\ player_df = {}
    /\ fetch_log = <<>>
    /\ calls = <<>>
    /\ inputs = <<>>

\* The number of date entries in the schedule payloads received so far
RECURSIVE EntryCount(_)
EntryCount(datas) ==
    IF datas = <<>> THEN 0
    ELSE (IF NoSchedule(Head(datas)) THEN 0 ELSE Len(OptGet(Head(datas)[1].gameDates, <<>>)))
         + EntryCount(Tail(datas))

\* One iteration of `for month in SEASON_MONTHS` in get_game_dates, the
\* response drawn from R; after the last month get_game_dates returns
\* and main starts on the scoreboards
MonthStep(R) ==
    /\ pc = "schedule"
    /\ month_i <= Len(SEASON_MONTHS)
    /\ \E resp \in R :
         LET data == get(resp) IN
         /\ dates' = dates \o MonthDates(data)
         /\ fetch_log' = Append(fetch_log,
                Fetch("schedule", SEASONS[season_i] \o <<"/">> \o SEASON_MONTHS[month_i], resp))
         /\ inputs' = Append(inputs, data)
    /\ month_i' = month_i + 1
    /\ pc' = IF month_i = Len(SEASON_MONTHS) THEN "scoreboards" ELSE "schedule"
    /\ date_i' = 1
    /\ game_metas' = <<>>
    /\ UNCHANGED <<season_i, unique_games, seen, game_i, season_rows, failed,
                   all_game_rows, raw_df, player_df, calls>>

\* One iteration of `for date in dates` in main
ScoreboardStep(R) ==
    /\ pc = "scoreboards"
    /\ date_i <= Len(dates)
    /\ \E resp \in R :
         /\ game_metas' = game_metas \o get_game_ids_for_date(resp)
         /\ fetch_log' = Append(fetch_log, Fetch("scoreboard", dates[date_i], resp))
         /\ inputs' = Append(inputs, get(resp))
    /\ date_i' = date_i + 1
    /\ UNCHANGED <<pc, season_i, month_i, dates, unique_games, seen, game_i, season_rows,
                   failed, all_game_rows, raw_df, player_df, calls>>

\* The deduplication of game_metas, once every scoreboard is fetched
DedupStep ==
    /\ pc = "scoreboards"
    /\ date_i > Len(dates)
    /\ seen' = Dedup(game_metas)[1]
    /\ unique_games' = Dedup(game_metas)[2]
    /\ game_i' = 1
    /\ season_rows' = <<>>
    /\ failed' = 0
    /\ pc' = "boxscores"
    /\ UNCHANGED <<season_i, month_i, dates, date_i, game_metas, all_game_rows, raw_df,
                   player_df, fetch_log, calls, inputs>>

\* One iteration of `for gid, meta in unique_games` in main; an exception of
\* parse_boxscore is caught nowhere and ends main
BoxscoreStep(R) ==
    /\ pc = "boxscores"
    /\ game_i <= Len(unique_games)
    /\ \E resp \in R :
         LET gid  == unique_games[game_i][1]
             meta == unique_games[game_i][2]
             res  == parse_boxscore(gid, meta, resp)
         IN
         /\ calls' = Append(calls, <<gid, meta>>)
         /\ fetch_log' = Append(fetch_log, Fetch("boxscore", gid, resp))
         /\ inputs' = Append(inputs, get(resp))
         /\ IF res.raised
            THEN /\ pc' = "crashed"
                 /\ UNCHANGED <<season_rows, failed, game_i>>
            ELSE /\ pc' = pc
                 /\ game_i' = game_i + 1
                 /\ IF res.rows # <<>>
                    THEN season_rows' = season_rows \o res.rows /\ failed' = failed
                    ELSE season_rows' = season_rows /\ failed' = failed + 1
    /\ UNCHANGED <<season_i, month_i, dates, date_i, game_metas, unique_games, seen,
                   all_game_rows, raw_df, player_df>>

\* The end of one iteration of `for season in SEASONS`
EndSeason ==
    /\ pc = "boxscores"
    /\ game_i > Len(unique_games)
    /\ all_game_rows' = all_game_rows \o season_rows
    /\ IF season_i < Len(SEASONS)
       THEN /\ season_i' = season_i + 1
            /\ month_i' = 1
            /\ dates' = <<>>
            /\ pc' = "schedule"
       ELSE /\ pc' = "finish"
            /\ UNCHANGED <<season_i, month_i, dates>>
    /\ UNCHANGED <<date_i, game_metas, unique_games, seen, game_i, season_rows, failed,
                   raw_df, player_df, fetch_log, calls, inputs>>

\* The rest of main after the season loop
Finish ==
    /\ pc = "finish"
    /\ IF all_game_rows = <<>>
       THEN /\ pc' = "no_data"
            /\ UNCHANGED <<raw_df, player_df>>
       ELSE /\ raw_df' = all_game_rows
            /\ player_df' = aggregate_player_season(all_game_rows)
            /\ pc' = "done"
    /\ UNCHANGED <<season_i, month_i, dates, date_i, game_metas, unique_games, seen,
                   game_i, season_rows, failed, all_game_rows, fetch_log, calls, inputs>>

\* The responses that give no payload: an exception, a status other than 200
Failing(empty) == {Response(TRUE, 0, empty), Response(FALSE, 404, empty)}

Ok(J) == {Response(FALSE, 200, j) : j \in J}

----------------------------------------------------------------------------
(* get_game_dates on the payloads of a season's months *)

\* "09-01-2024", "10-02-2024": well-formed dates; "09-2024": two segments;
\* "09-01-20-24": four segments; "": empty; "--": three empty segments
DateSamples ==
    { <<"0","9","-","0","1","-","2","0","2","4">>,
      <<"1","0","-","0","2","-","2","0","2","4">>,
      <<"0","9","-","2","0","2","4">>,
      <<"0","9","-","0","1","-","2","0","-","2","4">>,
      <<>>,
      <<"-","-">> }

\* Date entries: every date, present or absent, with a game count of 2, and a
\* well-formed date with a game count of 0 or with none
DateEntries ==
    [games : {<<2>>}, contest_date : Opt(DateSamples)]
    \cup [games : {<<0>>, <<>>}, contest_date : {<< <<"0","9","-","0","1","-","2","0","2","4">> >>}]

EmptySchedule == [gameDates |-> <<>>]

\* The schedule payloads of at most n date entries
SchedulePayloads(n) == [gameDates : Opt(SeqsUpTo(DateEntries, n))]

\* The responses to a schedule request: the payloads of a season hold at most
\* MaxEntries date entries in all
ScheduleResponses ==
    Failing(EmptySchedule) \cup Ok(SchedulePayloads(MaxEntries - EntryCount(inputs)))

NextDates == MonthStep(ScheduleResponses)

SpecDates == Init /\ [][NextDates]_vars

\* The positions of the dashes of a date string
DashAt(d) == {i \in 1..Len(d) : d[i] = "-"}

\* A date entry that the walker must keep: a game count above 0 and a date of
\* three dash-separated segments
Kept(entry) ==
    /\ entry.games # <<>> /\ entry.games[1] > 0
    /\ entry.contest_date # <<>> /\ Cardinality(DashAt(entry.contest_date[1])) = 2

\* MM-DD-YYYY rendered as YYYY/MM/DD: the text after the second dash, the text
\* before the first, the text between the two
Rendered(d) ==
    LET i == CHOOSE i \in DashAt(d) : \A j \in DashAt(d) : i <= j
        j == CHOOSE j \in DashAt(d) : \A k \in DashAt(d) : k <= j
    IN  SubSeq(d, j + 1, Len(d)) \o <<"/">> \o SubSeq(d, 1, i - 1) \o <<"/">> \o SubSeq(d, i + 1, j - 1)

\* Every date entry received so far, in month order then payload order
RECURSIVE EntriesOf(_)
EntriesOf(datas) ==
    IF datas = <<>> THEN <<>>
    ELSE (IF Head(datas) = <<>> THEN <<>> ELSE OptGet(Head(datas)[1].gameDates, <<>>))
         \o EntriesOf(Tail(datas))

\* The strings of at most MaxDateLen characters over digits, the dash and the slash
DateStrings == SeqsUpTo({"0", "1", "-", "/"}, MaxDateLen)

\* A well-formed date: three segments of digits
WellFormedDate(d) ==
    /\ Cardinality(DashAt(d)) = 2
    /\ \A i \in 1..Len(d) : d[i] \in Digits \cup {"-"}

WellFormedDates == {d \in DateStrings : WellFormedDate(d)}

\* Reformatting is injective on the well-formed dates
ReformatInjective ==
    \A d1, d2 \in WellFormedDates :
        Reformat(Split(d1, "-")) = Reformat(Split(d2, "-")) => d1 = d2

----------------------------------------------------------------------------
(* get_game_ids_for_date on the scoreboard of one date *)

\* The schedule of a season with one game date, 09-01-2024, in its first month
OneDateSchedule ==
    IF month_i = 1
    THEN Ok({[gameDates |-> << << [games |-> <<2>>,
                 contest_date |-> << <<"0","9","-","0","1","-","2","0","2","4">> >>] >> >>]})
    ELSE Failing(EmptySchedule)

\* "/game/6348656", "/game/abc", "/1/", "/game/12/", "1/a", "a/1"
UrlSamples ==
    { <<"/","g","a","m","e","/","6","3","4","8","6","5","6">>,
      <<"/","g","a","m","e","/","a","b","c">>,
      <<"/","1","/">>,
      <<"/","g","a","m","e","/","1","2","/">>,
      <<"1","/","a">>,
      <<"a","/","1">> }

\* The url values: every string of at most MaxUrlLen characters over a digit,
\* a letter and the slash, and the samples
UrlStrings == SeqsUpTo({"/", "1", "a"}, MaxUrlLen) \cup UrlSamples

\* The game entries of a scoreboard: no game key, or a game with or without a url
UrlItems ==
    {[game |-> <<>>]}
    \cup {[game |-> << [EmptyGame EXCEPT !.url = u] >>] : u \in Opt(UrlStrings)}

EmptyScoreboard == [games |-> <<>>]

UrlScoreboards == [games : Opt(SeqsUpTo(UrlItems, MaxBoardGames))]

NextIds ==
    \/ MonthStep(OneDateSchedule)
    \/ ScoreboardStep(Failing(EmptyScoreboard) \cup Ok(UrlScoreboards))

SpecIds == Init /\ [][NextIds]_vars

\* The url of a game entry ("" when the entry has no game or no url)
UrlOf(item) == IF item.game = <<>> THEN <<>> ELSE OptGet(item.game[1].url, <<>>)

\* The last path segment of a url: the slash-free text that ends at its last
\* character other than a slash ("" when there is none)
LastPathSegment(url) ==
    LET text == {i \in 1..Len(url) : url[i] # "/"}
    IN  IF text = {} THEN <<>>
        ELSE LET e == CHOOSE e \in text : \A k \in text : k <= e
                 b == CHOOSE b \in 1..e :
                         /\ \A k \in b..e : url[k] # "/"
                         /\ b = 1 \/ url[b - 1] = "/"
             IN  SubSeq(url, b, e)

\* The game entries of the scoreboards received so far, in order
RECURSIVE ItemsOf(_, _)
ItemsOf(log, datas) ==
    IF log = <<>> THEN <<>>
    ELSE (IF Head(log).kind = "scoreboard" /\ Head(datas) # <<>>
          THEN OptGet(Head(datas)[1].games, <<>>) ELSE <<>>)
         \o ItemsOf(Tail(log), Tail(datas))

\* C5: get_game_ids_for_date emits a (gameId, meta) pair for a game entry if and
\* only if the last path segment of its url is a non-empty all-digit string,
\* and then gameId and meta.game_id are that segment; the other entries are
\* discarded, and the entries after them are still processed.
C5_GameIds ==
    LET items == ItemsOf(fetch_log, inputs)
        kept  == SelectSeq(items, LAMBDA it :
                    /\ LastPathSegment(UrlOf(it)) # <<>>
                    /\ \A i \in 1..Len(LastPathSegment(UrlOf(it))) :
                           LastPathSegment(UrlOf(it))[i] \in Digits)
    IN  /\ Len(game_metas) = Len(kept)
        /\ \A i \in 1..Len(kept) :
              /\ game_metas[i][1] = LastPathSegment(UrlOf(kept[i]))
              /\ game_metas[i][2].game_id = game_metas[i][1]

\* A scoreboard whose first entry has a non-numeric last segment and whose
\* second entry is "/game/12/": only the second is emitted, as "12"
C5_Witness ==
    /\ date_i = 2
    /\ Len(ItemsOf(fetch_log, inputs)) = 2
    /\ UrlOf(ItemsOf(fetch_log, inputs)[1]) = <<"/","g","a","m","e","/","a","b","c">>
    /\ UrlOf(ItemsOf(fetch_log, inputs)[2]) = <<"/","g","a","m","e","/","1","2","/">>
    /\ Len(game_metas) = 1
    /\ game_metas[1][1] = <<"1","2">>

----------------------------------------------------------------------------
(* parse_boxscore on the boxscore of one game *)

Side(full, seo, winner, record) ==
    [names |-> << [full |-> full, seo |-> seo] >>, score |-> <<>>,
     winner |-> winner, description |-> record]

\* The home side of a scoreboard game: absent, without names, with an empty
\* short-code, with the short-code "x"; the home side has won where it says so
HomeSides ==
    { <<>>,
      << [names |-> <<>>, score |-> <<>>, winner |-> <<TRUE>>, description |-> <<"1-0">>] >>,
      << Side(<<"X U">>, <<"">>, <<TRUE>>, <<"1-0">>) >>,
      << Side(<<"X U">>, <<"x">>, <<TRUE>>, <<"1-0">>) >>,
      << Side(<<"X U">>, <<"x">>, <<>>, <<>>) >> }

AwaySide == << Side(<<"Y U">>, <<"y">>, <<FALSE>>, <<"0-1">>) >>

\* A scoreboard game "/game/<id>" that starts at startDate
Game(id, startDate, home, away) ==
    [url |-> << <<"/","g","a","m","e","/">> \o id >>, startDate |-> startDate,
     home |-> home, away |-> away, gameState |-> <<"final">>]

Date0901 == <<"2","0","2","4","-","0","9","-","0","1">>

Date0908 == <<"2","0","2","4","-","0","9","-","0","8">>

\* The scoreboards of one game, "/game/1"
OneGameScoreboards ==
    {[games |-> << << [game |-> << Game(<<"1">>, <<Date0901>>, home, AwaySide) >>] >> >>] :
        home \in HomeSides}

\* A player entry with no field
NoFields ==
    [firstName |-> <<>>, lastName |-> <<>>, number |-> <<>>, position |-> <<>>,
     typename |-> <<>>, category |-> <<>>, goals |-> <<>>, Goals |-> <<>>,
     assists |-> <<>>, minutesPlayed |-> <<>>, min |-> <<>>, fouls |-> <<>>]

\* A player entry with its identity fields and stats
Player(first, last, goals, assists, minutes) ==
    [NoFields EXCEPT !.firstName = <<first>>, !.lastName = <<last>>, !.number = <<"7">>,
                     !.position = <<"F">>, !.typename = <<"PlayerStats">>,
                     !.goals = goals, !.assists = assists, !.minutesPlayed = minutes]

Ann == Player("Ann", "Lee", <<Num(1)>>, <<Num(0)>>, <<Num(90)>>)

TeamInfo(teamId, nameFull, nameShort, seoname) ==
    [teamId |-> teamId, nameFull |-> nameFull, nameShort |-> nameShort, seoname |-> seoname]

\* The teams lists of a boxscore: absent, empty, keyed by integers, keyed by
\* strings, without names or short-code, with an entry that has no teamId,
\* with two entries of one key
TeamLists ==
    { <<>>,
      << <<>> >>,
      << << TeamInfo(<<IntId(1)>>, <<"X U">>, <<"X">>, <<"x">>),
            TeamInfo(<<IntId(2)>>, <<>>, <<"Y">>, <<"y">>) >> >>,
      << << TeamInfo(<<StrId(<<"1">>)>>, <<"X U">>, <<"X">>, <<"x">>),
            TeamInfo(<<StrId(<<"2">>)>>, <<"">>, <<>>, <<"y">>) >> >>,
      << << TeamInfo(<<IntId(1)>>, <<>>, <<>>, <<>>),
            TeamInfo(<<StrId(<<"2">>)>>, <<>>, <<>>, <<"">>) >> >>,
      << << TeamInfo(<<>>, <<"X U">>, <<"X">>, <<"x">>) >> >>,
      << << TeamInfo(<<IntId(1)>>, <<"X U">>, <<"X">>, <<"x">>),
            TeamInfo(<<IntId(1)>>, <<"Z U">>, <<"Z">>, <<"z">>) >> >> }

TeamBox(teamId, playerStats) == [teamId |-> teamId, playerStats |-> playerStats]

\* The team blocks of a boxscore: integer, string, zero-padded, non-numeric
\* and absent team identifiers, with and without player entries
TeamBoxes ==
    { TeamBox(<<IntId(1)>>, << <<Ann, NoFields>> >>),
      TeamBox(<<StrId(<<"2">>)>>, << <<Ann>> >>),
      TeamBox(<<StrId(<<"1">>)>>, << <<NoFields>> >>),
      TeamBox(<<StrId(<<"0","1">>)>>, << <<Ann>> >>),
      TeamBox(<<IntId(2)>>, <<>>),
      TeamBox(<<StrId(<<"a">>)>>, << <<Ann>> >>),
      TeamBox(<<>>, << <<Ann>> >>) }

EmptyBoxscore == [teams |-> <<>>, teamBoxscore |-> <<>>]

Boxscores == [teams : TeamLists, teamBoxscore : Opt(SeqsUpTo(TeamBoxes, MaxBlocks))]

NextBox ==
    \/ MonthStep(OneDateSchedule)
    \/ ScoreboardStep(Ok(OneGameScoreboards))
    \/ DedupStep
    \/ BoxscoreStep(Failing(EmptyBoxscore) \cup Ok(Boxscores))

SpecBox == Init /\ [][NextBox]_vars

\* C2: parse_boxscore never raises, whatever fields the payload lacks.
C2_NeverRaises == pc # "crashed"

\* The meta of the game a row belongs to
MetaOf(row) ==
    LET i == CHOOSE i \in 1..Len(unique_games) : unique_games[i][1] = row.game_id
    IN  unique_games[i][2]

\* The result and the record a row must carry for its classification
CarriesResultOf(row) ==
    /\ row.team_won = IF row.is_home THEN MetaOf(row).home_winner ELSE MetaOf(row).away_winner
    /\ row.team_record_at_game =
           IF row.is_home THEN MetaOf(row).home_record ELSE MetaOf(row).away_record

\* C9 as stated: a team block is home if its short-code equals the meta's home
\* short-code and away otherwise, empty short-codes included, and its rows
\* carry the result and the record of the side it is classified as.
C9_HomeIffEqual ==
    \A i \in 1..Len(season_rows) :
        /\ season_rows[i].is_home = (season_rows[i].team_seo = MetaOf(season_rows[i]).home_seo)
        /\ CarriesResultOf(season_rows[i])

\* C9, amended: a team block is home if its short-code is not empty and equals
\* the meta's home short-code, and away otherwise (so a block with an empty
\* short-code is away even when the home short-code is empty too); its rows
\* carry the result and the record of the side it is classified as.
C9_HomeIffNonEmptyEqual ==
    \A i \in 1..Len(season_rows) :
        /\ season_rows[i].is_home =
              (/\ season_rows[i].team_seo # ""
               /\ season_rows[i].team_seo = MetaOf(season_rows[i]).home_seo)
        /\ CarriesResultOf(season_rows[i])

\* One boxscore has given a home row, with the home result and record, and an
\* away row, with the away result and record
C9_Witness ==
    /\ \E i \in 1..Len(season_rows) :
          /\ season_rows[i].is_home /\ season_rows[i].team_seo = "x"
          /\ season_rows[i].team_won /\ season_rows[i].team_record_at_game = "1-0"
    /\ \E i \in 1..Len(season_rows) :
          /\ ~season_rows[i].is_home /\ season_rows[i].team_seo = "y"
          /\ ~season_rows[i].team_won /\ season_rows[i].team_record_at_game = "0-1"

----------------------------------------------------------------------------
(* aggregate_player_season on the rows of two games *)

HomeX(winner) == << Side(<<"X U">>, <<"x">>, <<winner>>, <<"1-0">>) >>

AwayY(winner) == << Side(<<"Y U">>, <<"y">>, <<winner>>, <<"0-1">>) >>

\* A scoreboard of the games "/game/1" and "/game/2"
TwoGames(g1, g2) == [games |-> << << [game |-> <<g1>>], [game |-> <<g2>>] >> >>]

\* The scoreboards of two games between X (home) and Y: X wins the first and
\* loses or wins the second, which is of the same season or of another
TwoGameScoreboards ==
    { TwoGames(Game(<<"1">>, <<Date0901>>, HomeX(TRUE), AwayY(FALSE)),
               Game(<<"2">>, <<Date0908>>, HomeX(FALSE), AwayY(TRUE))),
      TwoGames(Game(<<"1">>, <<Date0901>>, HomeX(TRUE), AwayY(FALSE)),
               Game(<<"2">>, << <<"2","0","2","3","-","0","9","-","0","1">> >>,
                    HomeX(TRUE), AwayY(FALSE))) }

TeamsXY ==
    << << TeamInfo(<<IntId(1)>>, <<"X U">>, <<"X">>, <<"x">>),
          TeamInfo(<<IntId(2)>>, <<"Y U">>, <<"Y">>, <<"y">>) >> >>

\* Player entries: goals without assists, assists without goals, unparseable
\* goals, minutes below, at and above 60, the stat_min column instead of
\* stat_minutesplayed, the "Goals" spelling, and an entry with no field
StatPlayers ==
    { Player("Ann", "Lee", <<Num(1)>>, <<>>, <<Num(45)>>),
      Player("Ann", "Lee", <<>>, <<Num(1)>>, <<Num(60)>>),
      Player("Ann", "Lee", <<NotNum>>, <<Num(1)>>, <<Num(59)>>),
      [Player("Ann", "Lee", <<Num(2)>>, <<Num(0)>>, <<>>) EXCEPT !.min = <<Num(90)>>],
      NoFields,
      [Player("Bea", "Lee", <<>>, <<>>, <<NotNum>>) EXCEPT !.Goals = <<Num(3)>>],
      [Player("Bea", "Lee", <<>>, <<>>, <<>>) EXCEPT !.min = <<Num(30)>>, !.fouls = <<Num(2)>>] }

\* The boxscores of one team block, of X or of Y, with at most n player entries
StatBoxscores(n) ==
    {[teams |-> TeamsXY, teamBoxscore |-> << << TeamBox(<<IntId(t)>>, <<players>>) >> >>] :
        t \in {1, 2}, players \in SeqsUpTo(StatPlayers, n)}

NextAgg ==
    \/ MonthStep(OneDateSchedule)
    \/ ScoreboardStep(Ok(TwoGameScoreboards))
    \/ DedupStep
    \/ BoxscoreStep(Failing(EmptyBoxscore) \cup Ok(StatBoxscores(MaxRows - Len(season_rows))))
    \/ EndSeason
    \/ Finish

SpecAgg == Init /\ [][NextAgg]_vars

\* The input rows that have the five key fields of an output row
SameKey(r) ==
    {i \in 1..Len(raw_df) :
        /\ raw_df[i].player_first = r.player_first
        /\ raw_df[i].player_last = r.player_last
        /\ raw_df[i].team_name = r.team_name
        /\ raw_df[i].team_seo = r.team_seo
        /\ raw_df[i].season = r.season}

\* The numeric value of an input cell, a missing or unparseable one counted as 0
ValueOrZero(cell) == IF cell # <<>> /\ cell[1].num THEN cell[1].n ELSE 0

\* The sum of a column over a set of input rows
RECURSIVE ColumnSum(_, _)
ColumnSum(I, c) ==
    IF I = {} THEN 0
    ELSE LET i == CHOOSE i \in I : TRUE IN ValueOrZero(raw_df[i][c]) + ColumnSum(I \ {i}, c)

RECURSIVE GamesPlayedSum(_)
GamesPlayedSum(R) ==
    IF R = {} THEN 0
    ELSE LET r == CHOOSE r \in R : TRUE IN r.games_played + GamesPlayedSum(R \ {r})

MinutesColumn ==
    LET has == {i \in 1..Len(raw_df) :
                   raw_df[i].stat_minutesplayed # <<>> \/ raw_df[i].stat_min # <<>>}
    IN  IF has = {} THEN <<>>
        ELSE LET i == CHOOSE i \in has : \A j \in has : i <= j
             IN  IF raw_df[i].stat_minutesplayed # <<>>
                 THEN <<"stat_minutesplayed">> ELSE <<"stat_min">>

C6_Production ==
    pc = "done" =>
        \A r \in player_df :
            /\ (r.production_per_game # <<>>) =
                  (/\ \E i \in 1..Len(raw_df) : raw_df[i].stat_goals # <<>>
                   /\ \E i \in 1..Len(raw_df) : raw_df[i].stat_assists # <<>>)
            /\ r.production_per_game # <<>> =>
                  r.production_per_game[1] =
                      Fraction(2 * ColumnSum(SameKey(r), "stat_goals")
                                 + ColumnSum(SameKey(r), "stat_assists"),
                               2 * r.games_played)

\* One row has goals only and another assists only: the column exists, and
\* a group of 1 goal and 1 assist in 2 games has (2 * 1 + 1) / (2 * 2)
C6_Witness ==
    /\ pc = "done"
    /\ \E i \in 1..Len(raw_df) : raw_df[i].stat_goals # <<>> /\ raw_df[i].stat_assists = <<>>
    /\ \E i \in 1..Len(raw_df) : raw_df[i].stat_goals = <<>> /\ raw_df[i].stat_assists # <<>>
    /\ \E r \in player_df :
          r.games_played = 2 /\ r.production_per_game = <<Fraction(3, 4)>>

----------------------------------------------------------------------------
(* main on a season of at most MaxEntries game dates *)

Entry0901 == [games |-> <<2>>, contest_date |-> << <<"0","9","-","0","1","-","2","0","2","4">> >>]

Entry1002 == [games |-> <<2>>, contest_date |-> << <<"1","0","-","0","2","-","2","0","2","4">> >>]

\* The schedule payloads of main's season: at most MaxEntries dates in all
SeasonSchedules ==
    {[gameDates |-> <<entries>>] :
        entries \in SeqsUpTo({Entry0901, Entry1002}, MaxEntries - EntryCount(inputs))}

\* The games of a day: game 1 under two start dates (so that its metadata
\* differs from one scoreboard to another) and game 2
DayItems ==
    { [game |-> << Game(<<"1">>, <<Date0901>>, HomeX(TRUE), AwayY(FALSE)) >>],
      [game |-> << Game(<<"1">>, <<Date0908>>, HomeX(TRUE), AwayY(FALSE)) >>],
      [game |-> << Game(<<"2">>, <<Date0901>>, HomeX(FALSE), AwayY(TRUE)) >>] }

DayScoreboards == {[games |-> <<items>>] : items \in SeqsUpTo(DayItems, MaxBoardGames)}

\* The boxscores of a game: one block with a player entry, no block, and a
\* block without teamId
GameBoxscores ==
    { [teams |-> TeamsXY, teamBoxscore |-> << << TeamBox(<<IntId(1)>>, << <<Ann>> >>) >> >>],
      [teams |-> TeamsXY, teamBoxscore |-> << <<>> >>],
      [teams |-> TeamsXY, teamBoxscore |-> << << TeamBox(<<>>, << <<Ann>> >>) >> >>] }

Next ==
    \/ MonthStep(Failing(EmptySchedule) \cup Ok(SeasonSchedules))
    \/ ScoreboardStep(Failing(EmptyScoreboard) \cup Ok(DayScoreboards))
    \/ DedupStep
    \/ BoxscoreStep(Failing(EmptyBoxscore) \cup Ok(GameBoxscores))
    \/ EndSeason
    \/ Finish

Spec == Init /\ [][Next]_vars

\* main has ended: normally, with "No data collected", or by an exception
Ended == pc \in {"done", "no_data", "crashed"}

\* The game identifiers of each scoreboard result received so far, in order
RECURSIVE BoardIds(_, _)
BoardIds(log, datas) ==
    IF log = <<>> THEN <<>>
    ELSE (IF Head(log).kind = "scoreboard"
          THEN << {LastPathSegment(UrlOf(it)) :
                      it \in Range(IF Head(datas) = <<>> THEN <<>>
                                   ELSE OptGet(Head(datas)[1].games, <<>>))} >>
          ELSE <<>>)
         \o BoardIds(Tail(log), Tail(datas))

\* The identifiers that the scoreboards of two requests both contain
RepeatedIds ==
    LET boards == BoardIds(fetch_log, inputs)
    IN  {gid \in UNION Range(boards) :
            \E i, j \in 1..Len(boards) : i < j /\ gid \in boards[i] /\ gid \in boards[j]}

\* The calls of parse_boxscore for one identifier
CallsOf(gid) == {i \in 1..Len(calls) : calls[i][1] = gid}

\* The metadata of the first occurrence of an identifier in game_metas
FirstMeta(gid) ==
    LET i == CHOOSE i \in 1..Len(game_metas) :
                /\ game_metas[i][1] = gid
                /\ \A j \in 1..(i - 1) : game_metas[j][1] # gid
    IN  game_metas[i][2]

\* The first position of an identifier in game_metas
FirstSeen(gid) ==
    CHOOSE i \in 1..Len(game_metas) :
        game_metas[i][1] = gid /\ \A j \in 1..(i - 1) : game_metas[j][1] # gid

\* C1: in a run of main, an identifier that the scoreboards of several dates
\* contain is passed to parse_boxscore exactly once, with the metadata of its
\* first occurrence, and the games are processed in first-seen order.
C1_ExactlyOnce ==
    Ended =>
        /\ \A gid \in RepeatedIds :
              /\ Cardinality(CallsOf(gid)) = 1
              /\ \A i \in CallsOf(gid) : calls[i][2] = FirstMeta(gid)
        /\ \A i, j \in 1..Len(calls) :
              i < j => FirstSeen(calls[i][1]) < FirstSeen(calls[j][1])

\* What the deduplication does guarantee, in every run: no identifier is
\* passed to parse_boxscore twice, every call carries the metadata of the
\* identifier's first occurrence, the calls are in first-seen order, and a
\* season loop that finishes has called parse_boxscore for every identifier.
DedupSound ==
    /\ \A i, j \in 1..Len(calls) : i < j => calls[i][1] # calls[j][1]
    /\ \A i \in 1..Len(calls) : calls[i][2] = FirstMeta(calls[i][1])
    /\ \A i, j \in 1..Len(calls) :
          i < j => FirstSeen(calls[i][1]) < FirstSeen(calls[j][1])
    /\ pc \in {"finish", "done", "no_data"} =>
          {calls[i][1] : i \in 1..Len(calls)} = {game_metas[i][1] : i \in 1..Len(game_metas)}

\* The number of requests of one kind so far
Fetches(kind) == Cardinality({i \in 1..Len(fetch_log) : fetch_log[i].kind = kind})

\* C3: a request that yields no payload never halts the pipeline: in a run in
\* which some request failed, every month's schedule, every date's scoreboard
\* and every unique game's boxscore is still requested, once, and main ends
\* normally, with the "No data collected" outcome when no row was collected.
C3_FailedFetchNeverHalts ==
    (Ended /\ \E i \in 1..Len(fetch_log) : ~fetch_log[i].ok) =>
        /\ Fetches("schedule") = Len(SEASON_MONTHS)
        /\ Fetches("scoreboard") = Len(dates)
        /\ Fetches("boxscore") = Len(unique_games)
        /\ pc = IF all_game_rows = <<>> THEN "no_data" ELSE "done"

\* What a failed request does guarantee: the step that receives no payload
\* moves on to the next month, date or game, adds no date, game or row, and
\* does not end main.
FailedFetchMovesOn ==
    [][(Len(fetch_log') = Len(fetch_log) + 1 /\ ~fetch_log'[Len(fetch_log')].ok) =>
          /\ pc' \in {"schedule", "scoreboards", "boxscores"}
          /\ dates' = dates /\ game_metas' = game_metas /\ season_rows' = season_rows
          /\ <<month_i', date_i', game_i'>> \in
                {<<month_i + 1, 1, game_i>>, <<month_i, date_i + 1, game_i>>,
                 <<month_i, date_i, game_i + 1>>}]_vars

----------------------------------------------------------------------------
(* main end to end: two game dates, one game a date, two teams of two player entries a game *)

\* The schedule: no payload for August, 09-01-2024 (and a date without games)
\* in September, 10-02-2024 in October, an empty payload for November
TwoDateSchedule ==
    CASE month_i = 1 -> Failing(EmptySchedule)
      [] month_i = 2 -> Ok({[gameDates |-> << <<Entry0901, [Entry1002 EXCEPT !.games = <<0>>]>> >>]})
      [] month_i = 3 -> Ok({[gameDates |-> << <<Entry1002>> >>]})
      [] OTHER -> Ok({EmptySchedule})

\* The scoreboard of each date: game 1 on the first; game 2, of the same
\* season or of another, on the second
OneGameADay ==
    IF date_i = 1
    THEN Ok({[games |-> << << [game |-> << Game(<<"1">>, <<Date0901>>, HomeX(TRUE), AwayY(FALSE)) >>] >> >>]})
    ELSE Ok({[games |-> << << [game |-> << Game(<<"2">>, <<d>>, HomeX(FALSE), AwayY(TRUE)) >>] >> >>] :
                d \in {Date0908, <<"2","0","2","3","-","0","9","-","0","1">>}})

\* Player entries: with stats, with names only, with no field
FixturePlayers ==
    { Player("Ann", "Lee", <<Num(1)>>, <<Num(1)>>, <<Num(90)>>),
      [NoFields EXCEPT !.firstName = <<"Bea">>, !.lastName = <<"Lee">>],
      NoFields }

\* The boxscores of two teams with two player entries each (X's block gives
\* its identifier as a string, Y's as an integer)
FixtureBoxscores ==
    {[teams |-> TeamsXY,
      teamBoxscore |-> << << TeamBox(<<StrId(<<"1">>)>>, << <<p1, p2>> >>),
                             TeamBox(<<IntId(2)>>, << <<p3, p4>> >>) >> >>] :
        p1 \in FixturePlayers, p2 \in FixturePlayers, p3 \in FixturePlayers, p4 \in FixturePlayers}

NextE2E ==
    \/ MonthStep(TwoDateSchedule)
    \/ ScoreboardStep(OneGameADay)
    \/ DedupStep
    \/ BoxscoreStep(Ok(FixtureBoxscores))
    \/ EndSeason
    \/ Finish

SpecE2E == Init /\ [][NextE2E]_vars

\* Two raw rows have the same five-field key
SameKeyRows(i, j) ==
    /\ raw_df[i].player_first = raw_df[j].player_first
    /\ raw_df[i].player_last = raw_df[j].player_last
    /\ raw_df[i].team_name = raw_df[j].team_name
    /\ raw_df[i].team_seo = raw_df[j].team_seo
    /\ raw_df[i].season = raw_df[j].season

\* The raw table has 8 rows, the season table at most 8, and every season row
\* sums the stats of the raw rows of its key
EightRowsSummed ==
    /\ Len(raw_df) = 8
    /\ Cardinality(player_df) <= 8
    /\ \A r \in player_df :
          /\ r.games_played = Cardinality(SameKey(r))
          /\ \A c \in Range(OptionalStatCols) :
                r[c] # <<>> => r[c][1] = ColumnSum(SameKey(r), c)

====
